---- MODULE Spec2Model ----
(***************************************************************************)
(* A model of quarg (src/quarg.py): the override store, the docstring      *)
(* parser, the argument spec builder (make_parser) and the dispatcher      *)
(* (main).                                                                 *)
(*                                                                         *)
(* Text is modelled as a sequence of one-character strings, so that the    *)
(* character-level operations of the code (len, strip, upper, lower, the   *)
(* marker regular expression) are computed and not assumed.                *)
(*                                                                         *)
(* A Python value is a record [t |-> <type name>, v |-> <its text>].       *)
(***************************************************************************)
EXTENDS Naturals, Sequences, FiniteSets, TLC

VARIABLES
    _arg_overrides,   \* quarg._arg_overrides: (function, parameter) -> dict
    applied,          \* history: the quarg.arg applications made so far
    defs,             \* the script's functions: name -> [args, doc]
    parser,           \* the parser make_parser configured
    argv,             \* the tokens handed to parse_args
    ns,               \* the outcome of parse_args
    doc,              \* the docstring handed to parse_docstring
    docres,           \* what parse_docstring returned
    commands,         \* quarg.commands
    _output_fn,       \* quarg._output_fn: function -> output filter
    _have_run_main,   \* quarg._have_run_main
    env,              \* the process environment (QUARG_DEBUG) and argv
    script,           \* the functions of the entry script among the values of
                      \* the caller's f_locals, in the order of f_locals
    calls,            \* history: the calls of main made so far
    proc,             \* what the process did: invocation, streams, exit code
    source            \* the top-level statements the entry script has executed

storeVars == <<_arg_overrides, applied>>
buildVars == <<defs, parser, argv, ns>>
docVars   == <<doc, docres>>
mainVars  == <<commands, _output_fn, _have_run_main, env, script, calls, proc, source>>
vars      == <<storeVars, buildVars, docVars, mainVars>>

----------------------------------------------------------------------------
(* Characters and text *)

LowerCase ==
    <<"a","b","c","d","e","f","g","h","i","j","k","l","m",
      "n","o","p","q","r","s","t","u","v","w","x","y","z">>

UpperCase ==
    <<"A","B","C","D","E","F","G","H","I","J","K","L","M",
      "N","O","P","Q","R","S","T","U","V","W","X","Y","Z">>

Range(s) == {s[i] : i \in DOMAIN s}

\* str.lower() on one character
lower(c) ==
    IF \E i \in DOMAIN UpperCase : UpperCase[i] = c
    THEN LowerCase[CHOOSE i \in DOMAIN UpperCase : UpperCase[i] = c]
    ELSE c

\* str.upper() on one character
upper(c) ==
    IF \E i \in DOMAIN LowerCase : LowerCase[i] = c
    THEN UpperCase[CHOOSE i \in DOMAIN LowerCase : LowerCase[i] = c]
    ELSE c

----------------------------------------------------------------------------
(* Python values and dicts *)

NoneV == [t |-> "NoneType", v |-> <<>>]
TrueV == [t |-> "bool", v |-> <<"T","r","u","e">>]
FalseV == [t |-> "bool", v |-> <<"F","a","l","s","e">>]
IntV(digits) == [t |-> "int", v |-> digits]
StrV(text) == [t |-> "str", v |-> text]
\* a type object; its name is kept whole
TypeV(name) == [t |-> "type", v |-> <<name>>]

\* bool(value)
Truthy(val) ==
    CASE val.t = "NoneType" -> FALSE
      [] val.t = "bool" -> val = TrueV
      [] val.t = "int" -> val.v # <<"0">>
      [] val.t = "str" -> val.v # <<>>
      [] OTHER -> TRUE

EmptyDict == [k \in {} |-> NoneV]

\* a variant that keeps only the later dict: what plain assignment would store
DictUpdateReplace(a, b) == b

\* dict(a, **b), and a.update(b)
DictUpdate(a, b) ==
    [k \in (DOMAIN a) \cup (DOMAIN b) |-> IF k \in DOMAIN b THEN b[k] ELSE a[k]]

\* d.get(k, dflt)
DictGet(d, k, dflt) == IF k \in DOMAIN d THEN d[k] ELSE dflt

----------------------------------------------------------------------------
(* Initial values of the parts a specification does not exercise *)

NoDefs == [f \in {} |-> <<>>]
NoParser == [built |-> FALSE, raised |-> "", name |-> <<>>, help |-> <<>>,
             description |-> <<>>, arguments |-> <<>>]
NoNs == [status |-> "none", values |-> EmptyDict]
NoDocRes == [status |-> "none", help |-> <<>>, description |-> <<>>,
             arghelp |-> EmptyDict]
NoProc == [status |-> "idle", exit |-> 0, registry |-> <<>>, targets |-> <<>>,
           called |-> <<>>,
           filter |-> "", returned |-> NoneV, raised |-> "", stdout |-> <<>>,
           stderr |-> "", listed |-> <<>>]

StoreIdle == _arg_overrides = EmptyDict /\ applied = <<>>
BuildIdle == defs = NoDefs /\ parser = NoParser /\ argv = <<>> /\ ns = NoNs
DocIdle == doc = NoneV /\ docres = NoDocRes
MainIdle ==
    /\ commands = <<>>
    /\ _output_fn = EmptyDict
    /\ _have_run_main = FALSE
    /\ env = EmptyDict
    /\ script = <<>>
    /\ source = <<>>
    /\ calls = <<>>
    /\ proc = NoProc

----------------------------------------------------------------------------
(* Text operations *)

IsSpace(c) == c = " "

Digits == {"0","1","2","3","4","5","6","7","8","9"}

\* the regular expression class \w
IsWord(c) == c \in Range(LowerCase) \cup Range(UpperCase) \cup Digits \cup {"_"}

\* s[n:] with n counted from 0
DropFirst(s, n) == IF n >= Len(s) THEN <<>> ELSE SubSeq(s, n + 1, Len(s))

\* s[:n]
TakeFirst(s, n) == IF n >= Len(s) THEN s ELSE SubSeq(s, 1, n)

\* the number of leading characters of s that satisfy the class
LeadingSpaces(s) ==
    IF \A i \in DOMAIN s : IsSpace(s[i]) THEN Len(s)
    ELSE (CHOOSE i \in DOMAIN s : ~IsSpace(s[i]) /\ \A j \in 1..(i-1) : IsSpace(s[j])) - 1

LeadingWord(s) ==
    IF \A i \in DOMAIN s : IsWord(s[i]) THEN Len(s)
    ELSE (CHOOSE i \in DOMAIN s : ~IsWord(s[i]) /\ \A j \in 1..(i-1) : IsWord(s[j])) - 1

TrailingSpaces(s) ==
    IF \A i \in DOMAIN s : IsSpace(s[i]) THEN Len(s)
    ELSE Len(s) - (CHOOSE i \in DOMAIN s : ~IsSpace(s[i]) /\ \A j \in (i+1)..Len(s) : IsSpace(s[j]))

\* str.lstrip(), str.rstrip(), str.strip()
lstrip(s) == DropFirst(s, LeadingSpaces(s))
rstrip(s) == TakeFirst(s, Len(s) - TrailingSpaces(s))
strip(s) == rstrip(lstrip(s))

\* str.isspace(): non-empty and all white space
isspace(s) == s # <<>> /\ \A i \in DOMAIN s : IsSpace(s[i])

\* sep.join(parts)
RECURSIVE join(_, _)
join(sep, parts) ==
    IF parts = <<>> THEN <<>>
    ELSE IF Len(parts) = 1 THEN parts[1]
    ELSE parts[1] \o sep \o join(sep, Tail(parts))

\* s.split("\n"): always at least one part
RECURSIVE split(_)
split(s) ==
    IF \A i \in DOMAIN s : s[i] # "\n" THEN <<s>>
    ELSE LET i == CHOOSE i \in DOMAIN s : s[i] = "\n" /\ \A j \in 1..(i-1) : s[j] # "\n"
         IN <<TakeFirst(s, i - 1)>> \o split(DropFirst(s, i))

\* s.splitlines(): no part for an empty text, none after a final line break
splitlines(s) ==
    IF s = <<>> THEN <<>>
    ELSE IF s[Len(s)] = "\n" THEN split(TakeFirst(s, Len(s) - 1))
    ELSE split(s)

RECURSIVE DropLeadingEmpty(_)
DropLeadingEmpty(lines) ==
    IF lines # <<>> /\ lines[1] = <<>> THEN DropLeadingEmpty(Tail(lines)) ELSE lines

RECURSIVE DropTrailingEmpty(_)
DropTrailingEmpty(lines) ==
    IF lines # <<>> /\ lines[Len(lines)] = <<>>
    THEN DropTrailingEmpty(SubSeq(lines, 1, Len(lines) - 1))
    ELSE lines

\* inspect.cleandoc(doc): the first line loses its indentation, the others
\* their common margin, and empty lines at both ends are dropped
cleandoc(text) ==
    LET lines == split(text)
        indents == {LeadingSpaces(lines[i]) :
                        i \in {j \in 2..Len(lines) : lstrip(lines[j]) # <<>>}}
        dedented == [i \in DOMAIN lines |->
                        IF i = 1 THEN lstrip(lines[i])
                        ELSE IF indents = {} THEN lines[i]
                        ELSE DropFirst(lines[i],
                                CHOOSE m \in indents : \A n \in indents : m <= n)]
    IN join(<<"\n">>, DropLeadingEmpty(DropTrailingEmpty(dedented)))

----------------------------------------------------------------------------
(* parse_docstring *)

\* arghelp_re.match(s), arghelp_re = ^(\s*--(\w+):\s+)(.*)$
\* The pieces of the only way the expression can match s.
ReLead(s) == LeadingSpaces(s)
ReName(s) == TakeFirst(DropFirst(s, ReLead(s) + 2), LeadingWord(DropFirst(s, ReLead(s) + 2)))
ReAfterColon(s) == DropFirst(s, ReLead(s) + 2 + Len(ReName(s)) + 1)

arghelp_match(s) ==
    /\ TakeFirst(DropFirst(s, ReLead(s)), 2) = <<"-", "-">>
    /\ ReName(s) # <<>>
    /\ TakeFirst(DropFirst(s, ReLead(s) + 2 + Len(ReName(s))), 1) = <<":">>
    /\ LeadingSpaces(ReAfterColon(s)) >= 1

\* m.group(1), m.group(2), m.group(3)
group1(s) == TakeFirst(s, ReLead(s) + 2 + Len(ReName(s)) + 1 + LeadingSpaces(ReAfterColon(s)))
group2(s) == ReName(s)
group3(s) == DropFirst(s, Len(group1(s)))

\* The loop of parse_docstring over lines[i..]; st holds arg, indent (0 for
\* None), arghelp (name -> list of texts) and description_lines.
RECURSIVE scan(_, _, _)
scan(lines, i, st) ==
    IF i > Len(lines) THEN st
    ELSE LET l == lines[i]
             s == strip(l)
         IN IF arghelp_match(s)
            THEN scan(lines, i + 1,
                      [st EXCEPT !.indent = Len(group1(s)),
                                 !.arg = group2(s),
                                 !.arghelp = DictUpdate(st.arghelp,
                                     [a \in {group2(s)} |-> <<strip(group3(s))>>])])
            ELSE IF st.indent # 0 /\ isspace(TakeFirst(l, st.indent))
            THEN scan(lines, i + 1,
                      [st EXCEPT !.arghelp[st.arg] = Append(st.arghelp[st.arg], strip(l))])
            ELSE scan(lines, i + 1,
                      [st EXCEPT !.indent = 0, !.arg = <<>>,
                                 !.description_lines = Append(st.description_lines, l)])

\* parse_docstring(doc); doc is None or a text
parse_docstring(d) ==
    IF d.t = "str" /\ d.v # <<>>
    THEN LET lines == splitlines(cleandoc(d.v))
         IN IF lines = <<>>
            THEN \* lines[0] raises IndexError
                 [status |-> "IndexError", help |-> <<>>, description |-> <<>>,
                  arghelp |-> EmptyDict]
            ELSE LET st == scan(lines, 1,
                               [arg |-> <<>>, indent |-> 0, arghelp |-> EmptyDict,
                                description_lines |-> <<>>])
                 IN [status |-> "parsed",
                     help |-> lines[1],
                     description |-> join(<<"\n">>, st.description_lines),
                     arghelp |-> [a \in DOMAIN st.arghelp |-> join(<<" ">>, st.arghelp[a])]]
    ELSE [status |-> "nodoc", help |-> <<>>, description |-> <<>>, arghelp |-> EmptyDict]

----------------------------------------------------------------------------
(* make_parser *)

\* A parameter of a function: its name, its annotation ("" when it has none),
\* whether it has a default, and the default.
Param(name, ann, hasdefault, default) ==
    [name |-> name, ann |-> ann, hasdefault |-> hasdefault, default |-> default]

\* A function of the script: __name__, its parameters and __doc__.
FunctionDef(name, params, docstring) == [name |-> name, args |-> params, doc |-> docstring]

\* inspect.getdoc(f)
getdoc(f) == IF defs[f].doc = NoneV THEN NoneV ELSE StrV(cleandoc(defs[f].doc.v))

\* external_argtype(t), t not None: a typing.IO type becomes FileType('r')
external_argtype(t) ==
    IF t = "TextIO" THEN [t |-> "FileType", v |-> <<"r">>] ELSE TypeV(t)

\* annotations.get(a), then "if argtype is bool: defaults[a] = False"
BoolAnnotated(p) == p.ann = "bool"

\* a variant without the assignment defaults[a] = False: declared defaults only
InDefaultsDeclaredOnly(p) == p.hasdefault

\* "a in defaults", after the assignment above
InDefaults(p) == p.hasdefault \/ BoolAnnotated(p)

\* defaults.get(a), after the assignment above
DefaultOf(p) == IF BoolAnnotated(p) THEN FalseV ELSE p.default

\* the letters tried for an abbreviation: each letter of the name, lower case
\* then upper case
Letters(a) ==
    [i \in 1..(2 * Len(a)) |->
        IF i % 2 = 1 THEN lower(a[(i + 1) \div 2]) ELSE upper(a[i \div 2])]

\* the first of Letters(a) not in abbrevs, as a set of at most one position
FirstFree(a, abbrevs) ==
    {i \in DOMAIN Letters(a) :
        /\ Letters(a)[i] \notin abbrevs
        /\ \A j \in 1..(i-1) : Letters(a)[j] \in abbrevs}

\* the abbreviations claimed once parameter p was handled
AbbrevsAfter(p, abbrevs) ==
    LET a == p.name
        own == IF Len(a) = 1 THEN abbrevs \cup {a[1]} ELSE abbrevs
    IN IF InDefaults(p) /\ Len(a) > 1 /\ FirstFree(a, own) # {}
       THEN own \cup {Letters(a)[CHOOSE i \in FirstFree(a, own) : TRUE]}
       ELSE own

\* a variant that leaves the name bare, as for a positional
OptionNamesBare(a, abbrevs) == <<a>>

\* the spellings of a named parameter
OptionNames(a, abbrevs) ==
    IF Len(a) > 1
    THEN IF FirstFree(a, abbrevs) # {}
         THEN << <<"-", Letters(a)[CHOOSE i \in FirstFree(a, abbrevs) : TRUE]>>,
                 <<"-", "-">> \o a >>
         ELSE << <<"-", "-">> \o a >>
    ELSE << <<"-">> \o a >>

\* names, for parameter p with abbrevs as claimed before it
NamesOf(p, abbrevs) ==
    IF InDefaults(p)
    THEN OptionNames(p.name, IF Len(p.name) = 1 THEN abbrevs \cup {p.name[1]} ELSE abbrevs)
    ELSE <<p.name>>

\* argtype, after "if d is not None and argtype is None: argtype = type(d)"
ArgType(p) ==
    IF InDefaults(p) /\ DefaultOf(p) # NoneV /\ p.ann = "" THEN DefaultOf(p).t ELSE p.ann

STORE_TRUE == StrV(<<"s","t","o","r","e","_","t","r","u","e">>)
STORE_FALSE == StrV(<<"s","t","o","r","e","_","f","a","l","s","e">>)

\* An annotation that is no class: typing.Optional[int], or a string such as
\* "int". issubclass(t, typing.IO) raises TypeError for it. (typing is there
\* wherever a function can carry annotations.)
NonClassAnnotations == {"Optional[int]"}

\* external_argtype(argtype) raises while parameter p is handled
RaisesTypeError(p) ==
    ArgType(p) \notin {"", "bool"} /\ ArgType(p) \in NonClassAnnotations

\* the action of a boolean parameter: the flag inverts the default
FlagAction(p) ==
    IF Truthy(IF InDefaults(p) THEN DefaultOf(p) ELSE FalseV) THEN STORE_FALSE ELSE STORE_TRUE

\* params, before the overrides
ComputedParams(p) ==
    LET withDefault == IF InDefaults(p)
                       THEN [k \in {"default"} |-> DefaultOf(p)]
                       ELSE EmptyDict
    IN IF ArgType(p) = "bool"
       THEN DictUpdate(withDefault, [k \in {"action"} |-> FlagAction(p)])
       ELSE IF ArgType(p) # ""
       THEN DictUpdate(withDefault, [k \in {"type"} |-> external_argtype(ArgType(p))])
       ELSE withDefault

\* params, once the overrides and the docstring's help are in
HelpedParams(f, p, arghelp) ==
    LET overridden == IF <<f, p.name>> \in DOMAIN _arg_overrides
                      THEN DictUpdate(ComputedParams(p), _arg_overrides[<<f, p.name>>])
                      ELSE ComputedParams(p)
    IN IF p.name \in DOMAIN arghelp
       THEN DictUpdate(overridden, [k \in {"help"} |-> StrV(arghelp[p.name])])
       ELSE overridden

\* a variant without the nargs step
FinalParamsWithoutNargs(f, p, arghelp) == HelpedParams(f, p, arghelp)

\* params, as handed to add_argument
FinalParams(f, p, arghelp) ==
    IF /\ ~InDefaults(p)
       /\ "default" \in DOMAIN HelpedParams(f, p, arghelp)
       /\ "nargs" \notin DOMAIN HelpedParams(f, p, arghelp)
    THEN DictUpdate(HelpedParams(f, p, arghelp), [k \in {"nargs"} |-> StrV(<<"?">>)])
    ELSE HelpedParams(f, p, arghelp)

\* the loop of make_parser over argspec.args[i..]: the add_argument calls made
RECURSIVE AddArguments(_, _, _, _, _)
AddArguments(f, args, i, abbrevs, arghelp) ==
    IF i > Len(args) \/ RaisesTypeError(args[i]) THEN <<>>
    ELSE <<[names |-> NamesOf(args[i], abbrevs),
            params |-> FinalParams(f, args[i], arghelp)]>>
         \o AddArguments(f, args, i + 1, AbbrevsAfter(args[i], abbrevs), arghelp)

\* make_parser(f, parser): base holds the arguments the parser already has;
\* make_parser(f, MockParser) and make_parser(f, add_parser) start from none
make_parser(f, base) ==
    LET parsed == parse_docstring(getdoc(f))
    IN [built |-> \A i \in DOMAIN defs[f].args : ~RaisesTypeError(defs[f].args[i]),
        raised |-> IF \E i \in DOMAIN defs[f].args : RaisesTypeError(defs[f].args[i])
                   THEN "TypeError" ELSE "",
        name |-> defs[f].name,
        help |-> parsed.help,
        description |-> parsed.description,
        arguments |-> base \o AddArguments(f, defs[f].args, 1, {}, parsed.arghelp)]

----------------------------------------------------------------------------
(* The parsing collaborator: ArgumentParser.add_argument and parse_args, as   *)
(* far as the parsers make_parser builds use them.                            *)

\* A command-line token: an option string with or without "=value", or a
\* plain value (flag empty).
Opt(flag) == [flag |-> flag, hasval |-> FALSE, val |-> <<>>]
OptEq(flag, val) == [flag |-> flag, hasval |-> TRUE, val |-> val]
Val(val) == [flag |-> <<>>, hasval |-> TRUE, val |-> val]

IsOptional(desc) == desc.names[1][1] = "-"

\* the attribute a descriptor stores to: dest if given, else the first long
\* option string, else the first short one, without its dashes
Dest(desc) ==
    IF "dest" \in DOMAIN desc.params THEN desc.params["dest"].v
    ELSE IF ~IsOptional(desc) THEN desc.names[1]
    ELSE IF \E i \in DOMAIN desc.names : TakeFirst(desc.names[i], 2) = <<"-", "-">>
    THEN DropFirst(desc.names[CHOOSE i \in DOMAIN desc.names :
                        /\ TakeFirst(desc.names[i], 2) = <<"-", "-">>
                        /\ \A j \in 1..(i-1) : TakeFirst(desc.names[j], 2) # <<"-", "-">>], 2)
    ELSE DropFirst(desc.names[1], 1)

ActionOf(desc) == DictGet(desc.params, "action", StrV(<<"s","t","o","r","e">>))

\* the value an absent argument is given
InitialValue(desc) ==
    IF "default" \in DOMAIN desc.params THEN desc.params["default"]
    ELSE IF ActionOf(desc) = STORE_TRUE THEN FalseV
    ELSE IF ActionOf(desc) = STORE_FALSE THEN TrueV
    ELSE NoneV

\* add_argument raises ArgumentError for an option string already in use
Conflicting(arguments) ==
    \E i, j \in DOMAIN arguments :
        /\ i < j
        /\ IsOptional(arguments[i]) /\ IsOptional(arguments[j])
        /\ Range(arguments[i].names) \cap Range(arguments[j].names) # {}

IsDigits(text) == text # <<>> /\ \A i \in DOMAIN text : text[i] \in Digits

\* type(text) can be computed
Convertible(desc, text) ==
    IF "type" \notin DOMAIN desc.params THEN TRUE
    ELSE IF desc.params["type"] = TypeV("int") THEN IsDigits(text)
    ELSE desc.params["type"] \in {TypeV("str"), [t |-> "FileType", v |-> <<"r">>]}

\* type(text)
Convert(desc, text) ==
    IF "type" \notin DOMAIN desc.params THEN StrV(text)
    ELSE IF desc.params["type"] = TypeV("int") THEN IntV(text)
    ELSE IF desc.params["type"] = TypeV("str") THEN StrV(text)
    ELSE [t |-> "file", v |-> text]

Positionals(arguments) == {i \in DOMAIN arguments : ~IsOptional(arguments[i])}

\* the k-th positional descriptor, as a set of at most one position
KthPositional(arguments, k) ==
    {i \in Positionals(arguments) :
        Cardinality({j \in Positionals(arguments) : j <= i}) = k}

\* the tokens from position i on; st holds the namespace, the number of
\* positionals filled and whether parsing failed
RECURSIVE consume(_, _, _, _)
consume(arguments, tokens, i, st) ==
    IF st.status # "ok" \/ i > Len(tokens) THEN st
    ELSE LET tok == tokens[i]
             opts == {n \in DOMAIN arguments : tok.flag \in Range(arguments[n].names)}
         IN IF tok.flag = <<"-", "h">> \/ tok.flag = <<"-", "-", "h", "e", "l", "p">>
            THEN [st EXCEPT !.status = "help"]
            ELSE IF tok.flag # <<>>
            THEN IF opts = {} THEN [st EXCEPT !.status = "error"]
                 ELSE LET desc == arguments[CHOOSE n \in opts : TRUE]
                      IN IF ActionOf(desc) \in {STORE_TRUE, STORE_FALSE}
                         THEN IF tok.hasval THEN [st EXCEPT !.status = "error"]
                              ELSE consume(arguments, tokens, i + 1,
                                     [st EXCEPT !.values[Dest(desc)] =
                                        IF ActionOf(desc) = STORE_TRUE THEN TrueV ELSE FalseV])
                         ELSE IF tok.hasval
                         THEN IF Convertible(desc, tok.val)
                              THEN consume(arguments, tokens, i + 1,
                                     [st EXCEPT !.values[Dest(desc)] = Convert(desc, tok.val)])
                              ELSE [st EXCEPT !.status = "error"]
                         ELSE IF i < Len(tokens) /\ tokens[i + 1].flag = <<>>
                                 /\ Convertible(desc, tokens[i + 1].val)
                         THEN consume(arguments, tokens, i + 2,
                                [st EXCEPT !.values[Dest(desc)] = Convert(desc, tokens[i + 1].val)])
                         ELSE [st EXCEPT !.status = "error"]
            ELSE LET next == KthPositional(arguments, st.filled + 1)
                 IN IF next = {} THEN [st EXCEPT !.status = "error"]
                    ELSE LET desc == arguments[CHOOSE n \in next : TRUE]
                         IN IF Convertible(desc, tok.val)
                            THEN consume(arguments, tokens, i + 1,
                                   [st EXCEPT !.values[Dest(desc)] = Convert(desc, tok.val),
                                              !.filled = st.filled + 1])
                            ELSE [st EXCEPT !.status = "error"]

\* parser.parse_args(tokens): "ok" with the namespace, "help" (exit 0) or
\* "error" (usage on standard error, exit 2)
parse_args(arguments, tokens) ==
    LET st == consume(arguments, tokens, 1,
                 [status |-> "ok", filled |-> 0,
                  values |-> [d \in {Dest(arguments[n]) : n \in DOMAIN arguments} |->
                                InitialValue(arguments[CHOOSE n \in DOMAIN arguments :
                                                Dest(arguments[n]) = d])]])
        missing == \E n \in Positionals(arguments) :
                      /\ Cardinality({j \in Positionals(arguments) : j <= n}) > st.filled
                      /\ "nargs" \notin DOMAIN arguments[n].params
    IN IF st.status = "ok" /\ missing
       THEN [status |-> "error", values |-> st.values]
       ELSE [status |-> st.status, values |-> st.values]

----------------------------------------------------------------------------
(* The registries and main *)

\* quarg.command(f)
command(f) ==
    /\ commands' = Append(commands, f)
    /\ UNCHANGED <<_output_fn, _have_run_main, env, script, calls, proc, source>>
    /\ UNCHANGED <<storeVars, buildVars, docVars>>

\* quarg.output(output_fn)(f): output_fn is None ("suppress") or a function;
\* the function of the tests is str.upper ("upper")
output(output_fn, f) ==
    /\ _output_fn' = DictUpdate(_output_fn,
                        [g \in {f} |-> IF output_fn = "None" THEN "suppress" ELSE output_fn])
    /\ UNCHANGED <<commands, _have_run_main, env, script, calls, proc, source>>
    /\ UNCHANGED <<storeVars, buildVars, docVars>>

\* str(value)
Str(val) == IF val = NoneV THEN <<"N","o","n","e">> ELSE val.v

\* _default_output(result)
_default_output(result) == IF result # NoneV THEN StrV(Str(result)) ELSE NoneV

\* the filter of command f: _output_fn.get(f, _default_output)
FilterOf(f) == DictGet(_output_fn, f, "default")

\* whether the filter raises on the result: str.upper needs a str
FilterRaises(f, result) == FilterOf(f) = "upper" /\ result.t # "str"

\* the filter applied to the result
string_result(f, result) ==
    CASE FilterOf(f) = "default" -> _default_output(result)
      [] FilterOf(f) = "suppress" -> NoneV
      [] OTHER -> StrV([i \in DOMAIN result.v |-> upper(result.v[i])])

\* a variant without the test of string_result: print always
PrintedAlways(val) == <<Str(val) \o <<"\n">> >>

\* "if string_result: print(string_result)": what standard output receives
Printed(val) == IF Truthy(val) THEN <<Str(val) \o <<"\n">> >> ELSE <<>>

QUARG_DEBUG_FLAG == <<"-","-","q","u","a","r","g","-","d","e","b","u","g">>
QUARG_DEBUG_DEST == <<"_","q","u","a","r","g","_","d","e","b","u","g">>

\* a variant that ignores the environment: the store_true default, False
DebugDefaultFromFlagOnly == FalseV

\* bool(os.getenv("QUARG_DEBUG"))
DebugDefault == IF Truthy(DictGet(env, "QUARG_DEBUG", NoneV)) THEN TrueV ELSE FalseV

\* the control argument main adds to the root parser
RootArguments ==
    <<[names |-> <<QUARG_DEBUG_FLAG>>,
       params |-> [k \in {"action", "dest", "default"} |->
                     CASE k = "action" -> STORE_TRUE
                       [] k = "dest" -> StrV(QUARG_DEBUG_DEST)
                       [] OTHER -> DebugDefault]]>>

\* The top-level statements of a script, as far as they bind names: def
\* (a new function object of the script), from-import (a function of another
\* module), the assignment of something that is no function, and the
\* assignment of what another name is bound to.
DefStmt(name, obj) == [stmt |-> "def", name |-> name, obj |-> obj, src |-> <<>>]
ImportStmt(name, obj) == [stmt |-> "import", name |-> name, obj |-> obj, src |-> <<>>]
AssignStmt(name) == [stmt |-> "assign", name |-> name, obj |-> "", src |-> <<>>]
AliasStmt(name, src) == [stmt |-> "alias", name |-> name, obj |-> "", src |-> src]

\* the value a statement binds, given the bindings made before it
BoundValue(st, bindings) ==
    CASE st.stmt = "def" -> [isfunction |-> TRUE, obj |-> st.obj, module |-> "__main__"]
      [] st.stmt = "import" -> [isfunction |-> TRUE, obj |-> st.obj, module |-> "other"]
      [] st.stmt = "assign" -> [isfunction |-> FALSE, obj |-> "", module |-> ""]
      [] OTHER -> bindings[CHOOSE i \in DOMAIN bindings : bindings[i].name = st.src].value

\* the module's namespace after stmts[i..], from bindings: a dict keeps a key
\* at the place of its first insertion and holds the value last assigned
RECURSIVE Namespace(_, _, _)
Namespace(stmts, i, bindings) ==
    IF i > Len(stmts) THEN bindings
    ELSE LET st == stmts[i]
             b == [name |-> st.name, value |-> BoundValue(st, bindings)]
         IN Namespace(stmts, i + 1,
                IF \E k \in DOMAIN bindings : bindings[k].name = st.name
                THEN [k \in DOMAIN bindings |->
                        IF bindings[k].name = st.name THEN b ELSE bindings[k]]
                ELSE Append(bindings, b))

\* f.f_locals of a call of main at the end of the script
f_locals(stmts) == Namespace(stmts, 1, <<>>)

\* [fn for fn in target_objects if inspect.isfunction(fn)
\*     and fn.__module__ in ('__main__', '__quarg_main__')]
RECURSIVE Discovered(_)
Discovered(bindings) ==
    IF bindings = <<>> THEN <<>>
    ELSE (IF bindings[1].value.isfunction
             /\ bindings[1].value.module \in {"__main__", "__quarg_main__"}
          THEN <<bindings[1].value.obj>> ELSE <<>>)
         \o Discovered(Tail(bindings))

\* a script that only defines the functions objs, one after the other
DefStatements(objs) == [i \in DOMAIN objs |-> DefStmt(defs[objs[i]].name, objs[i])]

\* commands, or the top-level functions of the entry script when none is
\* registered
target_commands == IF commands # <<>> THEN commands ELSE script

\* inspect.stack()[1][0]: the caller's frame. At module level its f_locals are
\* the module's globals, which hold __name__; inside a function they are the
\* function's local variables, which do not.
ModuleFrame(module) == [module |-> module, f_locals |-> [k \in {"__name__"} |-> module]]
FunctionFrame(module) == [module |-> module, f_locals |-> EmptyDict]

\* the condition under which a call of main dispatches
ShouldDispatch(f) == f.f_locals["__name__"] = "__main__" /\ ~_have_run_main

\* a call of main from the frame f gets past the lookup and the guard
Dispatching(f) == "__name__" \in DOMAIN f.f_locals /\ ShouldDispatch(f)

\* the exceptions main catches: "except Exception"
Caught(exc) == exc = "Exception"

\* k for k in vars(args) if not k.startswith('_quarg')
real_args(values) ==
    [k \in {d \in DOMAIN values : TakeFirst(d, 6) # <<"_","q","u","a","r","g">>} |-> values[k]]

\* the first plain value among the tokens: the subcommand token
FirstValue(tokens) ==
    {i \in DOMAIN tokens :
        tokens[i].flag = <<>> /\ \A j \in 1..(i-1) : tokens[j].flag # <<>>}

\* the subparser a name selects: of two subparsers added under one name the
\* later replaces the earlier
Selected(name) ==
    {i \in DOMAIN target_commands :
        /\ defs[target_commands[i]].name = name
        /\ \A j \in DOMAIN target_commands :
              defs[target_commands[j]].name = name => j <= i}

\* parser.parse_args(argv[1:]) on the parser main built. The result is
\* [status, values, func, root]: func is "" when no _quarg_func was set, root
\* tells whether the root parser reported.
TreeResult(r, func, root) ==
    [status |-> r.status, values |-> r.values, func |-> func, root |-> root]

\* One command: its arguments are added to the root parser.
SingleTree(tokens) ==
    TreeResult(parse_args(make_parser(target_commands[1], RootArguments).arguments, tokens),
               target_commands[1], FALSE)

\* the subparser chosen by the subcommand token tokens[k] parses what follows;
\* r is the root parser's result for what precedes
SubParse(tokens, k, r) ==
    IF r.status # "ok" \/ Selected(tokens[k].val) = {}
    THEN [status |-> IF r.status = "ok" THEN "error" ELSE r.status,
          values |-> r.values, func |-> "", root |-> TRUE]
    ELSE TreeResult(
            [status |-> parse_args(
                          make_parser(target_commands[CHOOSE i \in Selected(tokens[k].val) : TRUE],
                                      <<>>).arguments,
                          SubSeq(tokens, k + 1, Len(tokens))).status,
             values |-> DictUpdate(r.values,
                          parse_args(
                            make_parser(target_commands[CHOOSE i \in Selected(tokens[k].val) : TRUE],
                                        <<>>).arguments,
                            SubSeq(tokens, k + 1, Len(tokens))).values)],
            target_commands[CHOOSE i \in Selected(tokens[k].val) : TRUE], FALSE)

\* Otherwise: one subparser for each command, chosen by the first plain value.
SubTree(tokens) ==
    IF FirstValue(tokens) = {}
    THEN TreeResult(parse_args(RootArguments, tokens), "", TRUE)
    ELSE SubParse(tokens, CHOOSE i \in FirstValue(tokens) : TRUE,
                  parse_args(RootArguments,
                             SubSeq(tokens, 1, (CHOOSE i \in FirstValue(tokens) : TRUE) - 1)))

\* a variant that uses subparsers however many commands there are
ParseTreeSubOnly(tokens) == SubTree(tokens)

\* the parser main builds, applied to the tokens
ParseTree(tokens) ==
    IF Len(target_commands) = 1 THEN SingleTree(tokens) ELSE SubTree(tokens)

\* the parsers main adds arguments to: an option string used twice makes
\* add_argument raise
BuildRaises ==
    IF Len(target_commands) = 1
    THEN \/ make_parser(target_commands[1], RootArguments).raised # ""
         \/ Conflicting(make_parser(target_commands[1], RootArguments).arguments)
    ELSE \E i \in DOMAIN target_commands :
            \/ make_parser(target_commands[i], <<>>).raised # ""
            \/ Conflicting(make_parser(target_commands[i], <<>>).arguments)

\* the names the root parser's usage lists
Listed ==
    IF Len(target_commands) = 1 THEN <<>>
    ELSE [i \in DOMAIN target_commands |-> defs[target_commands[i]].name]

\* What main does once the parser is built (raises: the build failed) and the
\* tokens are parsed (tree), given how the command body behaves (beh: it
\* returns a value, or raises an Exception or another BaseException).
Outcome(raises, tree, beh) ==
    IF raises
    THEN [NoProc EXCEPT !.targets = target_commands,
                        !.status = "raised", !.stderr = "traceback"]
    ELSE IF tree.status = "help"
    THEN [NoProc EXCEPT !.targets = target_commands, !.status = "exited", !.exit = 0]
    ELSE IF tree.status = "error"
    THEN [NoProc EXCEPT !.targets = target_commands,
                        !.status = "exited", !.exit = 2, !.stderr = "usage and error",
                        !.listed = IF tree.root THEN Listed ELSE <<>>]
    ELSE IF tree.func = ""
    THEN [NoProc EXCEPT !.targets = target_commands,
                        !.status = "exited", !.exit = 2, !.stderr = "usage",
                        !.listed = Listed]
    ELSE IF beh.kind = "raise" /\ ~Caught(beh.exc)
    THEN [NoProc EXCEPT !.targets = target_commands,
                        !.called = <<[f |-> tree.func, kwargs |-> real_args(tree.values)]>>,
                        !.status = "raised", !.raised = beh.exc]
    ELSE IF beh.kind = "raise" \/ FilterRaises(tree.func, beh.value)
    THEN [NoProc EXCEPT !.targets = target_commands,
                        !.called = <<[f |-> tree.func, kwargs |-> real_args(tree.values)]>>,
                        !.status = "exited", !.exit = 1, !.filter = FilterOf(tree.func),
                        !.raised = beh.exc, !.returned = beh.value,
                        !.stderr = IF tree.values[QUARG_DEBUG_DEST] = TrueV
                                   THEN "traceback" ELSE "message"]
    ELSE [NoProc EXCEPT !.targets = target_commands,
                        !.called = <<[f |-> tree.func, kwargs |-> real_args(tree.values)]>>,
                        !.status = "returned", !.returned = beh.value,
                        !.filter = FilterOf(tree.func),
                        !.stdout = Printed(string_result(tree.func, beh.value))]

Dispatch(tokens, beh) ==
    [Outcome(BuildRaises, ParseTree(tokens), beh) EXCEPT !.registry = commands]

\* quarg.main(argv), called from the frame f; the lookup of __name__ in the
\* frame's f_locals raises KeyError when it is not there
main(f, tokens, beh) ==
    /\ IF "__name__" \notin DOMAIN f.f_locals
       THEN /\ calls' = Append(calls, [caller |-> f.module, dispatched |-> FALSE,
                                       raised |-> "KeyError"])
            /\ UNCHANGED <<_have_run_main, argv, proc>>
       ELSE /\ calls' = Append(calls, [caller |-> f.module,
                                       dispatched |-> ShouldDispatch(f),
                                       raised |-> ""])
            /\ IF ShouldDispatch(f)
               THEN /\ _have_run_main' = TRUE
                    /\ argv' = tokens
                    /\ proc' = Dispatch(tokens, beh)
               ELSE UNCHANGED <<_have_run_main, argv, proc>>
    /\ UNCHANGED <<commands, _output_fn, env, script, source>>
    /\ UNCHANGED <<defs, parser, ns, storeVars, docVars>>

\* how a command body can behave
Returns(value) == [kind |-> "return", value |-> value, exc |-> ""]
Raises(exc) == [kind |-> "raise", value |-> NoneV, exc |-> exc]

----------------------------------------------------------------------------
(* The override store: quarg.arg.<name>(kwargs)(f) *)

MaxApply == 3

Funcs == {"cmd", "other"}
ArgNames == {<<"x">>, <<"y">>}
HelpA == StrV(<<"A">>)
HelpB == StrV(<<"B">>)

\* the keyword arguments of one application
KwargsSet ==
    {EmptyDict}
    \cup {[k \in {"help"} |-> h] : h \in {HelpA, HelpB}}
    \cup {[k \in {"type"} |-> TypeV("int")]}
    \cup {[k \in {"help", "type"} |-> IF k = "help" THEN h ELSE TypeV("int")] :
            h \in {HelpA, HelpB}}

\* decorator(f) of _arg.__getattr__(name).wrap(kwargs)
arg(name, kwargs, f) ==
    /\ Len(applied) < MaxApply
    /\ _arg_overrides' =
         [p \in (DOMAIN _arg_overrides) \cup {<<f, name>>} |->
            IF p = <<f, name>>
            THEN DictUpdate(DictGet(_arg_overrides, <<f, name>>, EmptyDict), kwargs)
            ELSE _arg_overrides[p]]
    /\ applied' = Append(applied, [f |-> f, name |-> name, kwargs |-> kwargs])
    /\ UNCHANGED <<buildVars, docVars, mainVars>>

----------------------------------------------------------------------------
(* Specification of the override store alone *)

InitArg == StoreIdle /\ BuildIdle /\ DocIdle /\ MainIdle

NextArg == \E f \in Funcs, name \in ArgNames, kwargs \in KwargsSet : arg(name, kwargs, f)

SpecArg == InitArg /\ [][NextArg]_vars

----------------------------------------------------------------------------
(* Specification of parse_docstring alone: the docstring is chosen, then parsed *)

MaxDocLines == 4

Spaces(n) == [i \in 1..n |-> " "]

\* the lines docstrings are made of: blank, text, a marker at the margin, an
\* indented marker, and lines indented by 5 and by 7
DocLines ==
    { <<>>, <<"T">>, <<"d">>,
      <<"-","-","x",":"," ","h">>,
      Spaces(2) \o <<"-","-","y",":"," ","g">>,
      Spaces(5) \o <<"c">>,
      Spaces(7) \o <<"c">> }

\* the docstring of the test of tests.py, test_multiline_arg_descriptions, in
\* the form the specification quotes it
ExampleDoc ==
    <<"T","i","t","l","e","\n","\n","d","e","s","c","1","\n","\n","-","-","x",":"," ","h","1","\n"," "," "," "," "," ","h","2","\n","-","-","y",":"," ","h","3">>

DocTexts ==
    {ExampleDoc} \cup
    {join(<<"\n">>, ls) : ls \in UNION {[1..n -> DocLines] : n \in 1..MaxDocLines}}

DocValues == {NoneV} \cup {StrV(text) : text \in DocTexts}

ParseDocstring ==
    /\ docres.status = "none"
    /\ docres' = parse_docstring(doc)
    /\ UNCHANGED <<doc, storeVars, buildVars, mainVars>>

InitDoc == StoreIdle /\ BuildIdle /\ MainIdle /\ doc \in DocValues /\ docres = NoDocRes

NextDoc == ParseDocstring

SpecDoc == InitDoc /\ [][NextDoc]_vars

----------------------------------------------------------------------------
(* Specification of make_parser alone: a function is chosen, then            *)
(* make_parser(cmd, MockParser) is called                                    *)

MaxParams == 3

SigNames == { <<"a">>, <<"A">>, <<"a","b">>, <<"b","a">> }

\* the ways a parameter is declared: x, x: int, x: bool, x=None, x=1,
\* x=True, x: bool = True
NoDefaultParams(name) ==
    {Param(name, ann, FALSE, NoneV) : ann \in {"", "int", "bool"}}

DefaultedParams(name) ==
    {Param(name, "", TRUE, d) : d \in {NoneV, IntV(<<"1">>), TrueV}}
    \cup {Param(name, "bool", TRUE, TrueV)}

\* Python's syntax: names differ, and no parameter without a default follows
\* one with a default
Signatures ==
    {sig \in UNION {[1..n -> UNION {NoDefaultParams(a) \cup DefaultedParams(a) : a \in SigNames}] :
                        n \in 1..MaxParams} :
        /\ \A i, j \in DOMAIN sig : i # j => sig[i].name # sig[j].name
        /\ \A i, j \in DOMAIN sig : i < j /\ sig[i].hasdefault => sig[j].hasdefault}

\* p = quarg.make_parser(cmd, MockParser)
MakeParser ==
    /\ ~parser.built /\ parser.raised = ""
    /\ parser' = make_parser("cmd", <<>>)
    /\ UNCHANGED <<defs, argv, ns, storeVars, docVars, mainVars>>

InitBuild ==
    /\ StoreIdle /\ DocIdle /\ MainIdle
    /\ \E sig \in Signatures : defs = [f \in {"cmd"} |-> FunctionDef(<<"c","m","d">>, sig, NoneV)]
    /\ parser = NoParser /\ argv = <<>> /\ ns = NoNs

NextBuild == MakeParser

SpecBuild == InitBuild /\ [][NextBuild]_vars

----------------------------------------------------------------------------
(* Specification of the parsers make_parser builds for flag functions:     *)
(* p = make_parser(cmd, TestParser()), then p.parse_args(tokens)           *)

MaxFlagParams == 2
MaxFlagTokens == 2

N_pos == <<"p","o","s">>
N_neg == <<"n","e","g">>

\* x=False, x=True, x: bool, x: bool = False, x: bool = True
FlagParams(name) ==
    {Param(name, "", TRUE, FalseV), Param(name, "", TRUE, TrueV),
     Param(name, "bool", FALSE, NoneV),
     Param(name, "bool", TRUE, FalseV), Param(name, "bool", TRUE, TrueV)}

FlagSignatures ==
    {sig \in UNION {[1..n -> FlagParams(N_pos) \cup FlagParams(N_neg)] : n \in 1..MaxFlagParams} :
        /\ \A i, j \in DOMAIN sig : i # j => sig[i].name # sig[j].name
        /\ \A i, j \in DOMAIN sig : i < j /\ sig[i].hasdefault => sig[j].hasdefault}

FlagTokens ==
    {Opt(<<"-","-">> \o N_pos), Opt(<<"-","-">> \o N_neg), Opt(<<"-","p">>), Opt(<<"-","n">>)}

FlagArgvs == UNION {[1..n -> FlagTokens] : n \in 0..MaxFlagTokens}

\* p.parse_args(tokens)
ParseArgs(tokens) ==
    /\ parser.built /\ ns.status = "none"
    /\ argv' = tokens
    /\ ns' = IF Conflicting(parser.arguments)
             THEN [status |-> "ArgumentError", values |-> EmptyDict]
             ELSE parse_args(parser.arguments, tokens)
    /\ UNCHANGED <<defs, parser, storeVars, docVars, mainVars>>

InitCli ==
    /\ StoreIdle /\ DocIdle /\ MainIdle
    /\ \E sig \in FlagSignatures : defs = [f \in {"cmd"} |-> FunctionDef(<<"c","m","d">>, sig, NoneV)]
    /\ parser = NoParser /\ argv = <<>> /\ ns = NoNs

NextCli == MakeParser \/ \E tokens \in FlagArgvs : ParseArgs(tokens)

SpecCli == InitCli /\ [][NextCli]_vars

----------------------------------------------------------------------------
(* Specification of the output filters and the error reports of main: a    *)
(* script with one function, cmd(), decorated with quarg.output or not     *)

MaxMainCalls == 2

ReturnValues ==
    {NoneV, StrV(<<>>), StrV(<<"f","o","o">>), IntV(<<"0">>), IntV(<<"7">>), FalseV}

Behaviours ==
    {Returns(v) : v \in ReturnValues} \cup {Raises("Exception"), Raises("BaseException")}

\* QUARG_DEBUG unset, set to the empty text, set to "True"
Environments ==
    {EmptyDict, [k \in {"QUARG_DEBUG"} |-> StrV(<<>>)],
     [k \in {"QUARG_DEBUG"} |-> StrV(<<"T","r","u","e">>)]}

OutputArgvs == { <<>>, <<Opt(QUARG_DEBUG_FLAG)>> }

InitOutput ==
    /\ StoreIdle /\ DocIdle
    /\ defs = [f \in {"cmd"} |-> FunctionDef(<<"c","m","d">>, <<>>, NoneV)]
    /\ parser = NoParser /\ argv = <<>> /\ ns = NoNs
    /\ commands = <<>> /\ _output_fn = EmptyDict /\ _have_run_main = FALSE
    /\ env \in Environments
    /\ script = <<"cmd">>
    /\ source = DefStatements(script)
    /\ calls = <<>> /\ proc = NoProc

NextOutput ==
    \/ \E fn \in {"None", "upper"} : output(fn, "cmd")
    \/ /\ Len(calls) < MaxMainCalls /\ Dispatching(ModuleFrame("__main__"))
       /\ \E tokens \in OutputArgvs, beh \in Behaviours :
             main(ModuleFrame("__main__"), tokens, beh)
    \/ /\ Len(calls) < MaxMainCalls /\ ~Dispatching(ModuleFrame("__main__"))
       /\ main(ModuleFrame("__main__"), <<>>, Returns(NoneV))

SpecOutput == InitOutput /\ [][NextOutput]_vars

----------------------------------------------------------------------------
(* Specification of the dispatch of main: a script defining sum(x, y=0),   *)
(* or prod(x, y=1) and sum(x, y=0), registering commands or not            *)

MaxCommands == 2
MaxTokens == 2

N_x == <<"x">>
N_y == <<"y">>
N_sum == <<"s","u","m">>
N_prod == <<"p","r","o","d">>
N_div == <<"d","i","v">>

SuiteDefs ==
    [f \in {"prod", "sum"} |->
        IF f = "prod"
        THEN FunctionDef(N_prod, <<Param(N_x, "", FALSE, NoneV),
                                   Param(N_y, "", TRUE, IntV(<<"1">>))>>, NoneV)
        ELSE FunctionDef(N_sum, <<Param(N_x, "", FALSE, NoneV),
                                  Param(N_y, "", TRUE, IntV(<<"0">>))>>, NoneV)]

DispatchTokens ==
    {Val(N_sum), Val(N_prod), Val(N_div), Val(<<"1">>), Opt(QUARG_DEBUG_FLAG)}

DispatchArgvs == UNION {[1..n -> DispatchTokens] : n \in 0..MaxTokens}

\* main is called at module level or from inside a function, of the entry
\* script or of a module it imports
Frames ==
    {ModuleFrame(m) : m \in {"__main__", "imported"}}
    \cup {FunctionFrame(m) : m \in {"__main__", "imported"}}

InitDispatch ==
    /\ StoreIdle /\ DocIdle
    /\ script \in { <<"sum">>, <<"prod", "sum">> }
    /\ defs = [f \in Range(script) |-> SuiteDefs[f]]
    /\ source = DefStatements(script)
    /\ parser = NoParser /\ argv = <<>> /\ ns = NoNs
    /\ commands = <<>> /\ _output_fn = EmptyDict /\ _have_run_main = FALSE
    /\ env = EmptyDict
    /\ calls = <<>> /\ proc = NoProc

NextDispatch ==
    \/ \E f \in Range(script) : Len(commands) < MaxCommands /\ command(f)
    \/ /\ Len(calls) < MaxMainCalls
       /\ \E caller \in {c \in Frames : Dispatching(c)}, tokens \in DispatchArgvs,
             beh \in {Returns(IntV(<<"3">>)), Raises("Exception")} :
             main(caller, tokens, beh)
    \/ /\ Len(calls) < MaxMainCalls
       /\ \E caller \in {c \in Frames : ~Dispatching(c)} :
             main(caller, <<>>, Returns(NoneV))

SpecDispatch == InitDispatch /\ [][NextDispatch]_vars

----------------------------------------------------------------------------
(* Specification of examples/example3.py: join is registered, then main    *)
(* is called from the script                                               *)

MaxJoinTokens == 3

N_base == <<"b","a","s","e">>
N_num == <<"n","u","m">>
N_sentence == <<"s","e","n","t","e","n","c","e">>
N_separator == <<"s","e","p","a","r","a","t","o","r">>

JoinDoc ==
    <<"\n"," "," "," "," ","J","o","i","n"," ","m","u","l","t","i","p","l","e"," ","c","o","p","i","e","s"," ","o","f"," ","a"," ","s","t","r","i","n","g"," ","t","o","g","e","t","h","e","r"," ","w","i","t","h"," ","a"," ","c","o","m","m","a"," ","o","r"," ","s","i","m","i","l","a","r"," ","s","e","p","a","r","a","t","o","r",".","\n","\n"," "," "," "," ","-","-","b","a","s","e",":"," ","T","h","e"," ","s","t","r","i","n","g"," ","t","o"," ","r","e","p","e","a","t",".","\n"," "," "," "," ","-","-","n","u","m",":"," ","T","h","e"," ","n","u","m","b","e","r"," ","o","f"," ","t","i","m","e","s"," ","t","o"," ","r","e","p","e","a","t"," ","t","h","e"," ","s","t","r","i","n","g",".","\n"," "," "," "," ","-","-","s","e","n","t","e","n","c","e",":"," ","I","f"," ","g","i","v","e","n",","," ","r","e","t","u","r","n"," ","t","h","e"," ","r","e","s","u","l","t"," ","i","n"," ","s","e","n","t","e","n","c","e"," ","c","a","s","e",".","\n"," "," "," "," ","-","-","s","e","p","a","r","a","t","o","r",":"," ","A","n"," ","a","l","t","e","r","n","a","t","i","v","e"," ","s","e","p","a","r","a","t","o","r","\n"," "," "," "," ">>

Example3Defs ==
    [f \in {"convert_to_sentence", "join"} |->
        IF f = "join"
        THEN FunctionDef(<<"j","o","i","n">>,
                         <<Param(N_base, "", FALSE, NoneV),
                           Param(N_num, "int", FALSE, NoneV),
                           Param(N_sentence, "bool", FALSE, NoneV),
                           Param(N_separator, "", TRUE, StrV(<<",">>))>>,
                         StrV(JoinDoc))
        ELSE FunctionDef(<<"c","o","n","v","e","r","t","_","t","o","_",
                           "s","e","n","t","e","n","c","e">>,
                         <<Param(<<"s">>, "", FALSE, NoneV)>>, NoneV)]

DigitSeq == <<"0","1","2","3","4","5","6","7","8","9">>

\* int(text) as a number
RECURSIVE ToNat(_)
ToNat(text) ==
    IF text = <<>> THEN 0
    ELSE 10 * ToNat(SubSeq(text, 1, Len(text) - 1))
         + (CHOOSE i \in DOMAIN DigitSeq : DigitSeq[i] = text[Len(text)]) - 1

\* convert_to_sentence(s): s.capitalize() + "."
convert_to_sentence(text) ==
    [i \in DOMAIN text |-> IF i = 1 THEN upper(text[i]) ELSE lower(text[i])] \o <<".">>

\* the body of join
join_body(kwargs) ==
    LET result == join(kwargs[N_separator].v \o <<" ">>,
                       [i \in 1..ToNat(kwargs[N_num].v) |-> kwargs[N_base].v])
    IN StrV(IF kwargs[N_sentence] = TrueV THEN convert_to_sentence(result) ELSE result)

JoinTokens ==
    {OptEq(<<"-","-">> \o N_base, <<"x">>), OptEq(<<"-","-">> \o N_num, <<"3">>),
     OptEq(<<"-","-">> \o N_separator, <<"-">>), Opt(<<"-","-">> \o N_sentence),
     Val(<<"x">>), Val(<<"3">>)}

JoinArgvs == UNION {[1..n -> JoinTokens] : n \in 0..MaxJoinTokens}

\* how the chosen command behaves on the arguments the tokens parse to
BodyOn(tree) ==
    IF tree.status = "ok" /\ tree.func = "join"
    THEN Returns(join_body(real_args(tree.values)))
    ELSE Returns(NoneV)

JoinBehaviour(tokens) == BodyOn(ParseTree(tokens))

InitJoin ==
    /\ StoreIdle /\ DocIdle
    /\ defs = Example3Defs
    /\ parser = NoParser /\ argv = <<>> /\ ns = NoNs
    /\ commands = <<>> /\ _output_fn = EmptyDict /\ _have_run_main = FALSE
    /\ env = EmptyDict
    /\ script = <<"convert_to_sentence", "join">>
    /\ source = DefStatements(script)
    /\ calls = <<>> /\ proc = NoProc

NextJoin ==
    \/ commands = <<>> /\ command("join")
    \/ /\ commands = <<"join">> /\ Len(calls) < MaxMainCalls
       /\ Dispatching(ModuleFrame("__main__"))
       /\ \E tokens \in JoinArgvs :
             main(ModuleFrame("__main__"), tokens, JoinBehaviour(tokens))
    \/ /\ commands = <<"join">> /\ Len(calls) < MaxMainCalls
       /\ ~Dispatching(ModuleFrame("__main__"))
       /\ main(ModuleFrame("__main__"), <<>>, Returns(NoneV))

SpecJoin == InitJoin /\ [][NextJoin]_vars

----------------------------------------------------------------------------
(* Specification of command discovery: a script binds the names a and b by  *)
(* def, from-import and assignment, registers some of its functions with    *)
(* quarg.command while it loads, and calls main at its end                  *)

MaxStmts == 3
MaxRegistered == 2
MaxDiscoverCalls == 1

N_a == <<"a">>
N_b == <<"b">>

\* the function object the i-th statement creates or imports
Objects == <<"o1", "o2", "o3", "o4", "o5">>

\* the statements that can stand at position i
StmtsAt(i) ==
    UNION {{DefStmt(n, Objects[i]), ImportStmt(n, Objects[i]), AssignStmt(n)} :
              n \in {N_a, N_b}}
    \cup {AliasStmt(n, m) : n, m \in {N_a, N_b}}

\* the scripts that run: a name is read only after it was bound
Sources ==
    {src \in UNION {[1..n -> UNION {StmtsAt(i) : i \in 1..MaxStmts}] : n \in 1..MaxStmts} :
        \A i \in DOMAIN src :
            /\ src[i] \in StmtsAt(i)
            /\ src[i].stmt = "alias" => \E j \in 1..(i-1) : src[j].name = src[i].src}

\* the function objects of a script, each a function f(x) named as declared
SourceDefs(src) ==
    [o \in {src[i].obj : i \in {j \in DOMAIN src : src[j].stmt \in {"def", "import"}}} |->
        FunctionDef((CHOOSE st \in Range(src) : st.obj = o).name,
                    <<Param(N_x, "", FALSE, NoneV)>>, NoneV)]

DiscoverArgvs ==
    { <<>>, <<Val(<<"1">>)>>, <<Val(N_a), Val(<<"1">>)>>, <<Val(N_b), Val(<<"1">>)>> }

InitDiscover ==
    /\ StoreIdle /\ DocIdle
    /\ source \in Sources
    /\ defs = SourceDefs(source)
    /\ script = Discovered(f_locals(source))
    /\ parser = NoParser /\ argv = <<>> /\ ns = NoNs
    /\ commands = <<>> /\ _output_fn = EmptyDict /\ _have_run_main = FALSE
    /\ env = EmptyDict
    /\ calls = <<>> /\ proc = NoProc

NextDiscover ==
    \/ \E f \in DOMAIN defs :
          /\ calls = <<>> /\ Len(commands) < MaxRegistered
          /\ command(f)
    \/ \E tokens \in DiscoverArgvs :
          /\ Len(calls) < MaxDiscoverCalls
          /\ main(ModuleFrame("__main__"), tokens, Returns(IntV(<<"3">>)))

SpecDiscover == InitDiscover /\ [][NextDiscover]_vars

----------------------------------------------------------------------------
(* Specification of make_parser under overrides: cmd is decorated with      *)
(* quarg.arg.x(...) and quarg.arg.y(...), then handed to make_parser        *)

\* --x: h, in a docstring
MarkedDoc == <<"T","\n","\n","-","-","x",":"," ","h">>

\* def cmd(x), cmd(x: int), cmd(x: bool), each with or without y=1 and with
\* or without the docstring
OverrideSignatures ==
    {<<Param(N_x, ann, FALSE, NoneV)>> : ann \in {"", "int", "bool"}}
    \cup {<<Param(N_x, ann, FALSE, NoneV), Param(N_y, "", TRUE, IntV(<<"1">>))>> :
             ann \in {"", "int", "bool"}}

\* the keyword arguments of one decoration
OverrideKwargs ==
    {[k \in {"help"} |-> HelpA],
     [k \in {"type"} |-> TypeV("str")],
     [k \in {"default"} |-> IntV(<<"5">>)],
     [k \in {"nargs"} |-> StrV(<<"*">>)],
     [k \in {"action"} |-> StrV(<<"s","t","o","r","e">>)]}

InitOverride ==
    /\ StoreIdle /\ DocIdle /\ MainIdle
    /\ \E sig \in OverrideSignatures, d \in {NoneV, StrV(MarkedDoc)} :
          defs = [f \in {"cmd"} |-> FunctionDef(<<"c","m","d">>, sig, d)]
    /\ parser = NoParser /\ argv = <<>> /\ ns = NoNs

NextOverride ==
    \/ \E name \in ArgNames, kwargs \in OverrideKwargs :
          ~parser.built /\ arg(name, kwargs, "cmd")
    \/ MakeParser

SpecOverride == InitOverride /\ [][NextOverride]_vars

----------------------------------------------------------------------------
(* Specification of the coercion make_parser chooses: cmd has parameters    *)
(* with and without annotation and default, of every kind                   *)

MaxTypeParams == 2

TypeNames == <<N_x, N_y, <<"z">>, <<"w">> >>

\* no annotation, int, str, bool, typing.TextIO, typing.Optional[int]
Annotations == {"", "int", "str", "bool", "TextIO"} \cup NonClassAnnotations

\* no default, None, 1, "foo", True
TypedParams(name) ==
    {Param(name, ann, FALSE, NoneV) : ann \in Annotations}
    \cup {Param(name, ann, TRUE, d) :
             ann \in Annotations,
             d \in {NoneV, IntV(<<"1">>), StrV(<<"f","o","o">>), TrueV}}

TypedSignatures ==
    {sig \in UNION {[1..n -> UNION {TypedParams(TypeNames[i]) : i \in 1..MaxTypeParams}] :
                        n \in 1..MaxTypeParams} :
        /\ \A i \in DOMAIN sig : sig[i].name = TypeNames[i]
        /\ \A i, j \in DOMAIN sig : i < j /\ sig[i].hasdefault => sig[j].hasdefault}

InitTypes ==
    /\ StoreIdle /\ DocIdle /\ MainIdle
    /\ \E sig \in TypedSignatures :
          defs = [f \in {"cmd"} |-> FunctionDef(<<"c","m","d">>, sig, NoneV)]
    /\ parser = NoParser /\ argv = <<>> /\ ns = NoNs

NextTypes == MakeParser

SpecTypes == InitTypes /\ [][NextTypes]_vars

----------------------------------------------------------------------------
(* C1 *)

args == defs["cmd"].args

NoDefaultCount == Cardinality({i \in DOMAIN args : ~args[i].hasdefault})
DefaultedCount == Cardinality({i \in DOMAIN args : args[i].hasdefault})
BoolNoDefaultCount ==
    Cardinality({i \in DOMAIN args : ~args[i].hasdefault /\ args[i].ann = "bool"})

\* a bare name: the parameter's name and nothing else
IsPositionalFor(desc, p) == desc.names = <<p.name>>

\* dash-prefixed spellings only, the last of them the parameter's name after
\* one dash (a one-letter name) or two
IsNamedFor(desc, p) ==
    /\ \A i \in DOMAIN desc.names : desc.names[i][1] = "-"
    /\ desc.names[Len(desc.names)] =
          (IF Len(p.name) = 1 THEN <<"-">> ELSE <<"-", "-">>) \o p.name

PositionalCount ==
    Cardinality({i \in DOMAIN parser.arguments : ~IsOptional(parser.arguments[i])})
NamedCount ==
    Cardinality({i \in DOMAIN parser.arguments : IsOptional(parser.arguments[i])})

\* C1 as stated: n parameters without a default and m with one give exactly n
\* positional and m named descriptors, whatever the declared types, bool
\* included.
C1_Original ==
    parser.built => PositionalCount = NoDefaultCount /\ NamedCount = DefaultedCount

\* C1 as amended: one descriptor per parameter, in declaration order; a
\* parameter is positional exactly when it has no default and is not declared
\* bool, and named otherwise, so that with k of the n no-default parameters
\* declared bool there are n - k positional and m + k named descriptors.
C1_Descriptors ==
    parser.built =>
        /\ Len(parser.arguments) = Len(args)
        /\ \A i \in DOMAIN args :
              IF ~args[i].hasdefault /\ args[i].ann # "bool"
              THEN IsPositionalFor(parser.arguments[i], args[i])
              ELSE IsNamedFor(parser.arguments[i], args[i])
        /\ PositionalCount + BoolNoDefaultCount = NoDefaultCount
        /\ NamedCount = DefaultedCount + BoolNoDefaultCount

\* make_parser has run on cmd(ab, a: bool, ba=1): a no-default parameter, a
\* no-default parameter declared bool, and a defaulted one.
C1_Witness ==
    /\ parser.built
    /\ Len(args) = 3
    /\ args[1] = Param(<<"a","b">>, "", FALSE, NoneV)
    /\ args[2] = Param(<<"a">>, "bool", FALSE, NoneV)
    /\ args[3] = Param(<<"b","a">>, "", TRUE, IntV(<<"1">>))
    /\ PositionalCount = 1 /\ NamedCount = 2

----------------------------------------------------------------------------
(* C2 *)

\* the one-letter flag spellings of a descriptor
ShortFlags(desc) == {n \in Range(desc.names) : Len(n) = 2 /\ n[1] = "-" /\ n[2] # "-"}

\* C2: the one-letter flag spellings registered for a command are pairwise
\* distinct across its descriptors, wherever a one-letter parameter is declared.
C2_ShortFlagsDistinct ==
    parser.built =>
        \A i, j \in DOMAIN parser.arguments :
            i # j => ShortFlags(parser.arguments[i]) \cap ShortFlags(parser.arguments[j]) = {}


----------------------------------------------------------------------------
(* C3 *)

\* boolean by annotation, or by a literal True or False default
IsBooleanParam(p) == p.ann = "bool" \/ (p.ann = "" /\ p.hasdefault /\ p.default.t = "bool")

\* the flag of the i-th parameter is among the tokens
FlagPresent(i) == \E k \in DOMAIN argv : argv[k].flag \in Range(parser.arguments[i].names)

\* C3: a boolean parameter with default false (or none) parses to true when
\* its flag is present and false when absent; one with default true parses to
\* false when present and true when absent; for booleans by literal default
\* and by annotation alike, however often the flag is repeated.
C3_BooleanFlip ==
    ns.status = "ok" =>
        \A i \in DOMAIN args :
            IsBooleanParam(args[i]) =>
                ns.values[args[i].name] =
                    IF args[i].hasdefault /\ args[i].default = TrueV
                    THEN (IF FlagPresent(i) THEN FalseV ELSE TrueV)
                    ELSE (IF FlagPresent(i) THEN TrueV ELSE FalseV)

----------------------------------------------------------------------------
(* C6 *)

PlainValues == {k \in DOMAIN argv : argv[k].flag = <<>>}

\* the first plain value among the tokens names one of the commands ts
NamesACommand(ts) ==
    /\ PlainValues # {}
    /\ \E i \in DOMAIN ts :
          defs[ts[i]].name = argv[CHOOSE k \in FirstValue(argv) : TRUE].val

\* C6: with one command resolved, the command is chosen without a subcommand
\* token: it is invoked exactly when the tokens hold its one required value,
\* and the first plain value is its argument x. With two or more, it takes a
\* token naming one of them: a command is invoked only if the first plain
\* value names it, and with no such token, or one naming no command, nothing
\* is invoked and main exits with code 2 after printing usage, which lists the
\* command names when a token was given.
C6_SubcommandToken ==
    proc.status # "idle" =>
        /\ Len(proc.targets) = 1 =>
              /\ (proc.called # <<>>) = (Cardinality(PlainValues) = 1)
              /\ proc.called # <<>> =>
                    /\ proc.called[1].f = proc.targets[1]
                    /\ proc.called[1].kwargs[N_x] =
                          StrV(argv[CHOOSE k \in FirstValue(argv) : TRUE].val)
        /\ Len(proc.targets) >= 2 =>
              /\ proc.called # <<>> =>
                    /\ NamesACommand(proc.targets)
                    /\ proc.called[1].f \in Range(proc.targets)
                    /\ defs[proc.called[1].f].name =
                          argv[CHOOSE k \in FirstValue(argv) : TRUE].val
              /\ ~NamesACommand(proc.targets) =>
                    /\ proc.called = <<>>
                    /\ proc.status = "exited" /\ proc.exit = 2
                    /\ proc.stderr \in {"usage", "usage and error"}
                    /\ PlainValues # {} =>
                          proc.listed = [i \in DOMAIN proc.targets |->
                                            defs[proc.targets[i]].name]

\* prod and sum are resolved and the token div names neither: usage listing
\* prod and sum, exit code 2, nothing invoked.
C6_Witness ==
    /\ proc.targets = <<"prod", "sum">>
    /\ argv = <<Val(N_div), Val(<<"1">>)>>
    /\ proc.status = "exited" /\ proc.exit = 2 /\ proc.called = <<>>
    /\ proc.listed = <<N_prod, N_sum>>

----------------------------------------------------------------------------
(* C7 *)

\* C7 as stated: after a normal return nothing is written under output(None),
\* nothing for an unfiltered None, exactly str(v) and a newline for every
\* unfiltered non-None v, and the filter's result under a filter.
C7_Original ==
    proc.status = "returned" =>
        CASE proc.filter = "suppress" -> proc.stdout = <<>>
          [] proc.filter = "default" /\ proc.returned = NoneV -> proc.stdout = <<>>
          [] proc.filter = "default" /\ proc.returned # NoneV ->
                proc.stdout = << Str(proc.returned) \o <<"\n">> >>
          [] OTHER ->
                proc.stdout \in { <<>>,
                    << [i \in DOMAIN proc.returned.v |-> upper(proc.returned.v[i])]
                       \o <<"\n">> >> }

\* C7 as amended: as stated, but an unfiltered non-None v is written only when
\* str(v) is not empty, and a filter's result only when it is not empty: for
\* an empty text nothing is written, not even the newline.
C7_Output ==
    proc.status = "returned" =>
        CASE proc.filter = "suppress" -> proc.stdout = <<>>
          [] proc.filter = "default" /\ proc.returned = NoneV -> proc.stdout = <<>>
          [] proc.filter = "default" /\ proc.returned # NoneV ->
                proc.stdout = IF Str(proc.returned) = <<>> THEN <<>>
                              ELSE << Str(proc.returned) \o <<"\n">> >>
          [] OTHER ->
                proc.stdout = IF proc.returned.v = <<>> THEN <<>>
                              ELSE << [i \in DOMAIN proc.returned.v |->
                                          upper(proc.returned.v[i])] \o <<"\n">> >>

\* an unfiltered command returned the empty text and nothing was written
C7_Witness ==
    /\ proc.status = "returned" /\ proc.filter = "default"
    /\ proc.returned = StrV(<<>>) /\ proc.stdout = <<>>

----------------------------------------------------------------------------
(* C8 *)

\* --quarg-debug was given, or QUARG_DEBUG is set to a non-empty text
DebugOn ==
    \/ \E k \in DOMAIN argv : argv[k].flag = QUARG_DEBUG_FLAG
    \/ "QUARG_DEBUG" \in DOMAIN env /\ env["QUARG_DEBUG"].v # <<>>

\* C8 as stated: whatever the command raises, main catches it and exits with
\* code 1, with the traceback on standard error exactly in debug mode and the
\* message alone otherwise.
C8_Original ==
    proc.raised # "" =>
        /\ proc.status = "exited" /\ proc.exit = 1
        /\ proc.stderr = IF DebugOn THEN "traceback" ELSE "message"

\* C8 as amended: that holds of what derives from Exception; an exception that
\* does not (SystemExit, KeyboardInterrupt) is not caught and leaves main.
C8_ErrorReport ==
    /\ proc.raised = "Exception" =>
          /\ proc.status = "exited" /\ proc.exit = 1
          /\ proc.stderr = IF DebugOn THEN "traceback" ELSE "message"
    /\ proc.raised = "BaseException" => proc.status = "raised" /\ proc.stderr = ""

\* the command raised with QUARG_DEBUG=True and no flag: traceback, exit 1
C8_Witness ==
    /\ proc.raised = "Exception" /\ argv = <<>>
    /\ env = [k \in {"QUARG_DEBUG"} |-> StrV(<<"T","r","u","e">>)]
    /\ proc.stderr = "traceback" /\ proc.exit = 1

----------------------------------------------------------------------------
(* C9 *)

\* --base=x --num=3 --separator=-
ClaimedTokens ==
    <<OptEq(<<"-","-">> \o N_base, <<"x">>), OptEq(<<"-","-">> \o N_num, <<"3">>),
      OptEq(<<"-","-">> \o N_separator, <<"-">>)>>

\* x 3 --separator=-
PositionalTokens ==
    <<Val(<<"x">>), Val(<<"3">>), OptEq(<<"-","-">> \o N_separator, <<"-">>)>>

\* one call of join with base="x", num=3, sentence=False, separator="-"
ClaimedCall ==
    <<[f |-> "join",
       kwargs |-> [k \in {N_base, N_num, N_sentence, N_separator} |->
                     CASE k = N_base -> StrV(<<"x">>)
                       [] k = N_num -> IntV(<<"3">>)
                       [] k = N_sentence -> FalseV
                       [] OTHER -> StrV(<<"-">>)]]>>

\* C9 as stated: the tokens --base=x --num=3 --separator=- parse and join is
\* called once with base="x", num=3, sentence=False, separator="-".
C9_Original ==
    proc.status # "idle" /\ argv = ClaimedTokens =>
        proc.status = "returned" /\ proc.called = ClaimedCall

\* C9 as amended: base and num have no default and are positional, so it is
\* the tokens x 3 --separator=- that parse and call join once with base="x",
\* num=3, sentence=False, separator="-" (it returns "x- x- x"); the tokens
\* --base=x --num=3 --separator=- are a usage error: exit code 2, no call.
C9_EndToEnd ==
    /\ proc.status # "idle" /\ argv = PositionalTokens =>
          /\ proc.status = "returned" /\ proc.called = ClaimedCall
          /\ proc.stdout = << <<"x","-"," ","x","-"," ","x","\n">> >>
    /\ proc.status # "idle" /\ argv = ClaimedTokens =>
          proc.status = "exited" /\ proc.exit = 2 /\ proc.called = <<>>

\* main was run on x 3 --separator=- and called join
C9_Witness ==
    argv = PositionalTokens /\ proc.status = "returned" /\ proc.called = ClaimedCall

----------------------------------------------------------------------------
(* C10 *)

Dispatched == {i \in DOMAIN calls : calls[i].dispatched}

\* C10: over the calls of main made so far at most one dispatched; a call
\* dispatches only if it comes from the top-level script and no earlier call
\* dispatched; a call from an imported module does nothing (it returns:
\* no dispatch, no exception) and does not use up the guard, and every call
\* after the first dispatch does nothing, whatever that dispatch's outcome.
C10_DispatchOnce ==
    /\ Cardinality(Dispatched) <= 1
    /\ \A i \in DOMAIN calls :
          /\ calls[i].dispatched =>
                (calls[i].caller = "__main__" /\ \A j \in 1..(i-1) : ~calls[j].dispatched)
          /\ calls[i].caller # "__main__" => calls[i].raised = ""
          /\ (\E j \in 1..(i-1) : calls[j].dispatched) => calls[i].raised = ""
    /\ (Dispatched = {}) = (proc.status = "idle")
    /\ (Dispatched = {}) = ~_have_run_main

----------------------------------------------------------------------------
(* C4 *)

\* the applications made to the pair (f, name), as positions of the history
AppsTo(f, name) == {i \in DOMAIN applied : applied[i].f = f /\ applied[i].name = name}

\* the most recent application to (f, name) that supplied key k
LastSupplying(f, name, k) ==
    CHOOSE i \in AppsTo(f, name) :
        /\ k \in DOMAIN applied[i].kwargs
        /\ \A j \in AppsTo(f, name) : k \in DOMAIN applied[j].kwargs => j <= i

\* C4: the entry recorded for (f, name) is the key-by-key merge of every
\* application to that pair: a pair has an entry exactly when it was applied
\* to, the entry's keys are the keys any application supplied, each key holds
\* the value of the most recent application supplying it, and so no
\* application to another pair changes it.
C4_OverrideMerge ==
    \A f \in Funcs, name \in ArgNames :
        IF AppsTo(f, name) = {}
        THEN <<f, name>> \notin DOMAIN _arg_overrides
        ELSE /\ <<f, name>> \in DOMAIN _arg_overrides
             /\ DOMAIN _arg_overrides[<<f, name>>] =
                    UNION {DOMAIN applied[i].kwargs : i \in AppsTo(f, name)}
             /\ \A k \in DOMAIN _arg_overrides[<<f, name>>] :
                    _arg_overrides[<<f, name>>][k] =
                        applied[LastSupplying(f, name, k)].kwargs[k]

\* {help:A} then {type:int} then {help:B} have been applied to one pair, and
\* its entry holds type int and help B.
C4_Witness ==
    /\ Len(applied) = 3
    /\ applied[1].f = "cmd" /\ applied[1].name = <<"x">>
    /\ applied[1].kwargs = [k \in {"help"} |-> HelpA]
    /\ applied[2].f = "cmd" /\ applied[2].name = <<"x">>
    /\ applied[2].kwargs = [k \in {"type"} |-> TypeV("int")]
    /\ applied[3].f = "cmd" /\ applied[3].name = <<"x">>
    /\ applied[3].kwargs = [k \in {"help"} |-> HelpB]
    /\ _arg_overrides[<<"cmd", <<"x">> >>] =
          [k \in {"help", "type"} |-> IF k = "help" THEN HelpB ELSE TypeV("int")]

----------------------------------------------------------------------------
(* C5 *)

\* the lines of the dedented docstring
DedentedLines == splitlines(cleandoc(doc.v))

\* a line of the form --NAME: TEXT, at any indentation
IsMarkerLine(l) == arghelp_match(l)

\* the column at which a marker line's TEXT starts
TextColumn(l) == Len(group1(l))

\* line i continues the marker line m: every line from m+1 to i is a
\* non-marker, non-blank line indented at least to m's text column
Continues(ls, m, i) ==
    /\ m < i
    /\ IsMarkerLine(ls[m])
    /\ \A j \in (m+1)..i :
          /\ ~IsMarkerLine(ls[j])
          /\ lstrip(ls[j]) # <<>>
          /\ LeadingSpaces(ls[j]) >= TextColumn(ls[m])

IsContinuationLine(ls, i) == \E m \in 1..(i-1) : Continues(ls, m, i)

RECURSIVE DescriptionLinesFrom(_, _)
DescriptionLinesFrom(ls, i) ==
    IF i > Len(ls) THEN <<>>
    ELSE (IF IsMarkerLine(ls[i]) \/ IsContinuationLine(ls, i) THEN <<>> ELSE <<ls[i]>>)
         \o DescriptionLinesFrom(ls, i + 1)

RECURSIVE ContinuationTexts(_, _, _)
ContinuationTexts(ls, m, i) ==
    IF i <= Len(ls) /\ Continues(ls, m, i)
    THEN <<strip(ls[i])>> \o ContinuationTexts(ls, m, i + 1)
    ELSE <<>>

\* the last marker line naming a
LastMarker(ls, a) ==
    CHOOSE m \in DOMAIN ls :
        /\ IsMarkerLine(ls[m]) /\ group2(ls[m]) = a
        /\ \A n \in DOMAIN ls : IsMarkerLine(ls[n]) /\ group2(ls[n]) = a => n <= m

ClaimedArghelp(ls) ==
    [a \in {group2(ls[m]) : m \in {n \in DOMAIN ls : IsMarkerLine(ls[n])}} |->
        join(<<" ">>, <<strip(group3(ls[LastMarker(ls, a)]))>>
                      \o ContinuationTexts(ls, LastMarker(ls, a), LastMarker(ls, a) + 1))]

\* C5: parse_docstring on a non-empty docstring returns the first line of the
\* dedented text as summary, the marker texts with their continuation lines
\* (the following lines indented at least to the marker's text column),
\* space-joined, as arghelp, and every other line, in order, as description;
\* an absent or empty docstring gives three empty outputs.
C5_ParseDocstring ==
    docres.status # "none" =>
        IF doc = NoneV \/ doc.v = <<>>
        THEN /\ docres.status = "nodoc"
             /\ docres.help = <<>> /\ docres.description = <<>>
             /\ docres.arghelp = EmptyDict
        ELSE /\ docres.status = "parsed"
             /\ docres.help = DedentedLines[1]
             /\ docres.description = join(<<"\n">>, DescriptionLinesFrom(DedentedLines, 1))
             /\ docres.arghelp = ClaimedArghelp(DedentedLines)

----------------------------------------------------------------------------
(* C11 *)

\* C11: commands holds each decorated callable once: no callable is at two
\* positions, however often it was decorated, so that a dispatch over a
\* registry naming a single callable is a dispatch over a single command.
C11_RegisteredOnce ==
    /\ \A i, j \in DOMAIN commands : commands[i] = commands[j] => i = j
    /\ proc.status # "idle" /\ Cardinality(Range(proc.targets)) = 1 =>
          Len(proc.targets) = 1

----------------------------------------------------------------------------
(* C12 *)

\* what name n is bound to once the first i statements of the script have run
RECURSIVE ValueOf(_, _)
ValueOf(n, i) ==
    IF i = 0 THEN [bound |-> FALSE, isfunction |-> FALSE, obj |-> "", module |-> ""]
    ELSE IF source[i].name # n THEN ValueOf(n, i - 1)
    ELSE CASE source[i].stmt = "def" ->
                [bound |-> TRUE, isfunction |-> TRUE, obj |-> source[i].obj,
                 module |-> "__main__"]
           [] source[i].stmt = "import" ->
                [bound |-> TRUE, isfunction |-> TRUE, obj |-> source[i].obj,
                 module |-> "other"]
           [] source[i].stmt = "assign" ->
                [bound |-> TRUE, isfunction |-> FALSE, obj |-> "", module |-> ""]
           [] OTHER -> ValueOf(source[i].src, i - 1)

\* the positions P in increasing order
InOrder(P) ==
    [k \in 1..Cardinality(P) |-> CHOOSE i \in P : Cardinality({j \in P : j < i}) = k - 1]

\* the def statements whose function is still bound to a name when main runs
LiveDefs ==
    {i \in DOMAIN source :
        /\ source[i].stmt = "def"
        /\ \E j \in DOMAIN source : ValueOf(source[j].name, Len(source)).obj = source[i].obj}

\* the functions the script defines, in the order of their def statements
DeclarationOrder == [k \in DOMAIN InOrder(LiveDefs) |-> source[InOrder(LiveDefs)[k]].obj]

\* C12: main exposes the registered commands, in registration order, when
\* there is one, and otherwise (and only then) the functions the script
\* defines, each as a command, in declaration order; nothing else is invoked.
C12_Original ==
    proc.status # "idle" =>
        /\ proc.targets = IF proc.registry # <<>> THEN proc.registry ELSE DeclarationOrder
        /\ \A i \in DOMAIN proc.called : proc.called[i].f \in Range(proc.targets)

----------------------------------------------------------------------------
(* C13 *)

\* the override recorded for parameter p of cmd
OverrideOf(p) == DictGet(_arg_overrides, <<"cmd", p.name>>, EmptyDict)

\* C13: every key the override of a parameter supplies is in the descriptor
\* with the override's value, every computed field the override does not
\* supply keeps its computed value, and the help of the docstring's --x:
\* block is the descriptor's help only when the override supplies none.
C13_OverridesWin ==
    parser.built =>
        \A i \in DOMAIN args :
            LET final == parser.arguments[i].params
                over == OverrideOf(args[i])
            IN /\ \A k \in DOMAIN over : k \in DOMAIN final /\ final[k] = over[k]
               /\ \A k \in DOMAIN ComputedParams(args[i]) \ DOMAIN over :
                     k \in DOMAIN final /\ final[k] = ComputedParams(args[i])[k]
               /\ ("help" \notin DOMAIN over /\ defs["cmd"].doc # NoneV /\ args[i].name = N_x)
                     => "help" \in DOMAIN final /\ final["help"] = StrV(<<"h">>)

----------------------------------------------------------------------------
(* C15 *)

\* C15 as stated: a descriptor that carries a default is a named option, and
\* a positional descriptor carries neither default nor nargs: it is required,
\* with arity one.
C15_Original ==
    parser.built =>
        \A i \in DOMAIN parser.arguments :
            LET final == parser.arguments[i].params
            IN /\ "default" \in DOMAIN final => IsOptional(parser.arguments[i])
               /\ ~IsOptional(parser.arguments[i]) =>
                     "default" \notin DOMAIN final /\ "nargs" \notin DOMAIN final

\* C15 as amended: a parameter is a named option exactly when the signature
\* gives it a default or declares it bool. A default an override gives to any
\* other parameter leaves it positional: the descriptor carries that default
\* and nargs, the override's if it supplies one and "?" otherwise. A
\* positional descriptor is required with arity one (neither default nor
\* nargs) exactly when the override supplies neither.
C15_Positionals ==
    parser.built =>
        \A i \in DOMAIN args :
            LET final == parser.arguments[i].params
                over == OverrideOf(args[i])
            IN IF args[i].hasdefault \/ args[i].ann = "bool"
               THEN IsNamedFor(parser.arguments[i], args[i])
               ELSE /\ IsPositionalFor(parser.arguments[i], args[i])
                    /\ ("default" \in DOMAIN final) = ("default" \in DOMAIN over)
                    /\ "default" \in DOMAIN over =>
                          /\ final["default"] = over["default"]
                          /\ "nargs" \in DOMAIN final
                          /\ final["nargs"] = IF "nargs" \in DOMAIN over THEN over["nargs"]
                                              ELSE StrV(<<"?">>)
                    /\ "default" \notin DOMAIN over =>
                          ("nargs" \in DOMAIN final) = ("nargs" \in DOMAIN over)

\* cmd(x) decorated with quarg.arg.x(default=5): x stays positional, with
\* default 5 and nargs "?"
C15_Witness ==
    /\ parser.built
    /\ args = <<Param(N_x, "", FALSE, NoneV)>>
    /\ _arg_overrides = [k \in {<<"cmd", N_x>>} |-> [j \in {"default"} |-> IntV(<<"5">>)]]
    /\ parser.arguments[1].names = <<N_x>>
    /\ parser.arguments[1].params["default"] = IntV(<<"5">>)
    /\ parser.arguments[1].params["nargs"] = StrV(<<"?">>)

----------------------------------------------------------------------------
(* C14 *)

\* C14: make_parser returns, and for every parameter: a boolean one (by
\* annotation or by a True or False default) gets a flip action and no type;
\* one without annotation gets the type of its default when that is not None
\* and no type when it has no default or the default None; one with another
\* annotation gets that annotation as type, a typing.IO type as a read-mode
\* file opener.
C14_Coercion ==
    (parser.built \/ parser.raised # "") =>
        /\ parser.built
        /\ Len(parser.arguments) = Len(args)
        /\ \A i \in DOMAIN args :
              LET final == parser.arguments[i].params
              IN IF IsBooleanParam(args[i])
                 THEN /\ "action" \in DOMAIN final
                      /\ final["action"] \in {STORE_TRUE, STORE_FALSE}
                      /\ "type" \notin DOMAIN final
                 ELSE IF args[i].ann = ""
                 THEN IF args[i].hasdefault /\ args[i].default # NoneV
                      THEN "type" \in DOMAIN final
                           /\ final["type"] = TypeV(args[i].default.t)
                      ELSE "type" \notin DOMAIN final /\ "action" \notin DOMAIN final
                 ELSE /\ "type" \in DOMAIN final
                      /\ final["type"] = IF args[i].ann = "TextIO"
                                         THEN [t |-> "FileType", v |-> <<"r">>]
                                         ELSE TypeV(args[i].ann)

====
